---- MODULE Spec2Model ----
(***************************************************************************)
(* The review-sentiment pipeline of app.py: module-level loading of the    *)
(* vectorizer and the sentiment model, the two TMDb helpers, and the       *)
(* /analyze handler.  Requests are served by independent workers; the      *)
(* catalog (TMDb) and the two pickle files are the environment.            *)
(***************************************************************************)
EXTENDS Integers, Sequences, FiniteSets, TLC

\* ---------------------------------------------------------------- bounds
NumReq     == 2    \* analyze invocations in one behaviour
MaxReviews == 2    \* longest review list the review endpoint returns

Requests == 1..NumReq
Chars    == {" ", "a"}
Ids      == {0, 27205}
Texts    == {"Great visuals", "Boring plot"}
Features == {"f1", "f2"}
Preds    == {0, 1, 2}

SeqsUpTo(S, n) == UNION {[1..k -> S] : k \in 0..n}
\* The sequences over S without repetition.
Distinct(S) == {l \in SeqsUpTo(S, Cardinality(S)) :
                  \A i, j \in 1..Len(l) : i # j => l[i] # l[j]}

\* ------------------------------------------------------- Python values
\* A str-or-None value (request_data.get('movie_title')).
NoneStr    == [isNone |-> TRUE, chars |-> <<>>]
Str(s)     == [isNone |-> FALSE, chars |-> s]
\* None, the empty string, and the one-character strings.
Titles     == {NoneStr, Str(<<>>)} \cup {Str(<<c>>) : c \in Chars}
\* An int-or-None value (the return value of find_movie_id_from_tmdb).
NoneInt    == [isNone |-> TRUE, val |-> 0]
Int_(n)    == [isNone |-> FALSE, val |-> n]
MovieIds   == {NoneInt} \cup {Int_(n) : n \in Ids}

\* Python truthiness: `not x` is true of None, of "" and of 0.
NotStr(t)  == t.isNone \/ Len(t.chars) = 0
NotInt(x)  == x.isNone \/ x.val = 0
NotList(l) == Len(l) = 0

\* str.strip(): the string without its leading and trailing whitespace.
RECURSIVE LStrip(_)
LStrip(s) == IF s # <<>> /\ Head(s) = " " THEN LStrip(Tail(s)) ELSE s
RECURSIVE RStrip(_)
RStrip(s) == IF s # <<>> /\ s[Len(s)] = " " THEN RStrip(SubSeq(s, 1, Len(s) - 1)) ELSE s
Strip(s)  == RStrip(LStrip(s))

\* ------------------------------------------------------------ environment
\* What a call of requests.get(url) followed by .json() can do.
\*   hang    : the catalog never answers (requests.get has no timeout)
\*   raise   : requests.get raises (connection error)
\*   badjson : .json() raises (the body is not JSON)
\*   nokey   : a JSON object without 'results' (an error body)
\*   list    : a JSON object whose 'results' is the list `results`
\* A search lists each movie entry at most once; reviews may repeat.
Failure(k) == [kind |-> k, results |-> <<>>]
Unasked    == Failure("unasked")
Failures   == {Failure("hang"), Failure("raise"), Failure("badjson"), Failure("nokey")}
SearchResponses ==
    Failures \cup {[kind |-> "list", results |-> l] : l \in Distinct([id : Ids])}
ReviewResponses ==
    Failures \cup {[kind |-> "list", results |-> l] : l \in SeqsUpTo([content : Texts], MaxReviews)}

\* A pickle file: unreadable, or holding a fitted object.  The fitted mapping
\* is fixed by the file; the model fixes each of its values the first time it
\* is used (NoFeature, NoPred: not used yet).
NoFeature == "?"
NoPred    == -1
FreshVectorizer == [t \in Texts |-> NoFeature]
FreshModel      == [f \in Features |-> NoPred]

\* The mappings that agree with `map` where it is fixed and are fixed on `keys`.
Fix(map, keys, values, none) ==
    {f \in [DOMAIN map -> values \cup {none}] :
        \A k \in DOMAIN map :
            /\ map[k] # none => f[k] = map[k]
            /\ k \in keys => f[k] # none
            /\ (map[k] = none /\ k \notin keys) => f[k] = none}
Range(seq) == {seq[i] : i \in 1..Len(seq)}

VARIABLES
    boot,                \* "starting" while the module body runs, then "serving"
    vectorizer_pkl,      \* the file vectorizer.pkl
    sentiment_model_pkl, \* the file sentiment_model.pkl
    my_vectorizer,       \* module global
    my_model,            \* module global
    loads,               \* the joblib.load calls made so far, in order
    searchCatalog,       \* the catalog's answer to a search, per title
    reviewCatalog,       \* the catalog's answer to a review listing, per id
    pc,                  \* per request: "idle", "searching", "fetching", "done"
    movie_title_from_user,
    movie_id,
    reviews_list,
    outcome,
    final_response_data,
    calls,               \* per request: the catalog calls it has made, in order
    stages               \* per request: the pipeline stages it has run, in order

env  == <<vectorizer_pkl, sentiment_model_pkl, searchCatalog, reviewCatalog>>
glob == <<boot, my_vectorizer, my_model, loads>>
req  == <<pc, movie_title_from_user, movie_id, reviews_list, outcome,
          final_response_data, calls, stages>>
vars == <<env, glob, req>>

\* ------------------------------------------------------- startup (19-37)
\* A module global: None, or the object unpickled from the named file.
NoneObj   == "None"
NotObj(o) == o = NoneObj

\* The try block: vectorizer first, then the model; any exception sets both
\* globals to None.  The model file is not opened when the vectorizer failed.
LoadedGlobals(vfile, mfile) ==
    IF ~vfile.ok
    THEN [vectorizer |-> NoneObj, model |-> NoneObj,
          loads |-> <<"vectorizer.pkl">>]
    ELSE IF ~mfile.ok
    THEN [vectorizer |-> NoneObj, model |-> NoneObj,
          loads |-> <<"vectorizer.pkl", "sentiment_model.pkl">>]
    ELSE [vectorizer |-> "vectorizer.pkl", model |-> "sentiment_model.pkl",
          loads |-> <<"vectorizer.pkl", "sentiment_model.pkl">>]

LoadModels ==
    /\ boot = "starting"
    /\ LET g == LoadedGlobals(vectorizer_pkl, sentiment_model_pkl) IN
         /\ my_vectorizer' = g.vectorizer
         /\ my_model' = g.model
         /\ loads' = loads \o g.loads
    /\ boot' = "serving"
    /\ UNCHANGED <<env, req>>

\* ------------------------------------------------ TMDb helpers (42-86)
TMDB_API_KEY == "391f...a962"

Returned(v) == [raised |-> FALSE, value |-> v]

\* find_movie_id_from_tmdb, given what requests.get(...).json() did.
find_movie_id_from_tmdb(resp) ==
    IF resp.kind \in {"raise", "badjson"}
    THEN [raised |-> TRUE, value |-> NoneInt]
    ELSE IF resp.kind = "list" /\ ~NotList(resp.results)
    THEN Returned(Int_(resp.results[1].id))
    ELSE Returned(NoneInt)

\* Mutant: the list of reviews lives outside the function and is never reset
\* (here: it still holds what the first invocation collected).
ExtractReviewsShared(all_review_data) ==
    reviews_list[1] \o [i \in 1..Len(all_review_data) |-> all_review_data[i].content]

\* The for loop of get_reviews_for_movie: the 'content' of each item, in order.
ExtractReviews(all_review_data) ==
    [i \in 1..Len(all_review_data) |-> all_review_data[i].content]

\* get_reviews_for_movie, given what requests.get(...).json() did.
get_reviews_for_movie(resp) ==
    IF resp.kind \in {"raise", "badjson"}
    THEN [raised |-> TRUE, value |-> <<>>]
    ELSE IF resp.kind = "list" /\ ~NotList(resp.results)
    THEN Returned(ExtractReviews(resp.results))
    ELSE Returned(<<>>)

\* ------------------------------------------- /analyze handler (100-184)
\* Mutant: the title is validated before the model check.
EntryChecksTitleFirst(model, vectorizer, title) ==
    IF NotStr(title) THEN "InvalidInput"
    ELSE IF NotObj(model) \/ NotObj(vectorizer) THEN "ModelUnavailable"
    ELSE "Proceed"

\* The three early returns before the first catalog call.
EntryChecks(model, vectorizer, title) ==
    IF NotObj(model) \/ NotObj(vectorizer) THEN "ModelUnavailable"
    ELSE IF TMDB_API_KEY = "PASTE_YOUR_API_KEY_HERE" THEN "ApiKeyMissing"
    ELSE IF NotStr(title) THEN "InvalidInput"
    ELSE "Proceed"

\* Mutant: the identifier is never tested.
MovieIdMissingNever(id) == FALSE

\* `if not movie_id:` after step 1.
MovieIdMissing(id) == NotInt(id)

\* Mutant: `if reviews_list is None:` (the fetcher returns a list, never None).
NoReviewsIsNone(reviews) == FALSE

\* `if not reviews_list:` after step 2.
NoReviews(reviews) == NotList(reviews)

\* my_vectorizer.transform and my_model.predict: one output per input, in order.
\* (vectorizer, model: the fitted mappings of the two loaded objects.)
Transform(vectorizer, reviews) == [i \in 1..Len(reviews) |-> vectorizer[reviews[i]]]
Predict(model, vectorized) == [i \in 1..Len(vectorized) |-> model[vectorized[i]]]

EmptyCounts == [final_results_list |-> <<>>, positive_review_count |-> 0,
                negative_review_count |-> 0]

\* Mutant: `elif prediction == 0:` guards the negative count.
LoopBodyElif(acc, review_text, prediction) ==
    IF prediction = 1
    THEN [final_results_list |-> Append(acc.final_results_list,
                                   [text |-> review_text, sentiment |-> "Positive"]),
          positive_review_count |-> acc.positive_review_count + 1,
          negative_review_count |-> acc.negative_review_count]
    ELSE [final_results_list |-> Append(acc.final_results_list,
                                   [text |-> review_text, sentiment |-> "Negative"]),
          positive_review_count |-> acc.positive_review_count,
          negative_review_count |-> acc.negative_review_count
                                      + (IF prediction = 0 THEN 1 ELSE 0)]

\* Mutant: `if prediction >= 1:` decides the label.
LoopBodyGe(acc, review_text, prediction) ==
    IF prediction >= 1
    THEN [final_results_list |-> Append(acc.final_results_list,
                                   [text |-> review_text, sentiment |-> "Positive"]),
          positive_review_count |-> acc.positive_review_count + 1,
          negative_review_count |-> acc.negative_review_count]
    ELSE [final_results_list |-> Append(acc.final_results_list,
                                   [text |-> review_text, sentiment |-> "Negative"]),
          positive_review_count |-> acc.positive_review_count,
          negative_review_count |-> acc.negative_review_count + 1]

\* One iteration of the loop of step 4.
LoopBody(acc, review_text, prediction) ==
    IF prediction = 1
    THEN [final_results_list |-> Append(acc.final_results_list,
                                   [text |-> review_text, sentiment |-> "Positive"]),
          positive_review_count |-> acc.positive_review_count + 1,
          negative_review_count |-> acc.negative_review_count]
    ELSE [final_results_list |-> Append(acc.final_results_list,
                                   [text |-> review_text, sentiment |-> "Negative"]),
          positive_review_count |-> acc.positive_review_count,
          negative_review_count |-> acc.negative_review_count + 1]

\* for i in range(len(reviews_list)): the state after iterations 1..i.
RECURSIVE Loop(_, _, _)
Loop(reviews, sentiment_predictions, i) ==
    IF i = 0 THEN EmptyCounts
    ELSE LoopBody(Loop(reviews, sentiment_predictions, i - 1),
                  reviews[i], sentiment_predictions[i])

\* Steps 3 to 5: the JSON object sent back.
Analyze(model, vectorizer, reviews) ==
    LET reviews_vectorized    == Transform(vectorizer, reviews)
        sentiment_predictions == Predict(model, reviews_vectorized)
        acc == Loop(reviews, sentiment_predictions, Len(reviews))
    IN  [positive_count |-> acc.positive_review_count,
         negative_count |-> acc.negative_review_count,
         total_reviews  |-> Len(acc.final_results_list),
         reviews        |-> acc.final_results_list]

NoSummary == [positive_count |-> 0, negative_count |-> 0, total_reviews |-> 0,
              reviews |-> <<>>]

\* The handler returns (or Flask answers 500 for an exception it did not catch).
Finish(r, o) ==
    /\ pc' = [pc EXCEPT ![r] = "done"]
    /\ outcome' = [outcome EXCEPT ![r] = o]

\* The catalog's answer to a query is fixed the first time the query is made.
Ask(catalog, key, responses) ==
    IF catalog[key] = Unasked
    THEN {[catalog EXCEPT ![key] = resp] : resp \in responses}
    ELSE {catalog}

\* A request arrives: the handler runs up to its first blocking call.
Receive(r, title) ==
    /\ boot = "serving"
    /\ pc[r] = "idle"
    /\ \A q \in Requests : q < r => pc[q] # "idle"   \* numbered as they arrive
    /\ movie_title_from_user' = [movie_title_from_user EXCEPT ![r] = title]
    /\ LET chk == EntryChecks(my_model, my_vectorizer, title) IN
         IF chk # "Proceed"
         THEN /\ Finish(r, chk)
              /\ stages' = [stages EXCEPT ![r] = <<"ModelCheck">>]
              /\ UNCHANGED <<calls, searchCatalog>>
         ELSE /\ pc' = [pc EXCEPT ![r] = "searching"]
              /\ stages' = [stages EXCEPT ![r] = <<"ModelCheck", "Resolving">>]
              /\ calls' = [calls EXCEPT ![r] = Append(@, "search")]
              /\ searchCatalog' \in Ask(searchCatalog, title, SearchResponses)
              /\ UNCHANGED outcome
    /\ UNCHANGED <<glob, vectorizer_pkl, sentiment_model_pkl, reviewCatalog,
                   movie_id, reviews_list, final_response_data>>

\* The search call returns: the handler runs up to its second blocking call.
SearchReturn(r) ==
    /\ pc[r] = "searching"
    /\ searchCatalog[movie_title_from_user[r]].kind # "hang"
    /\ LET res == find_movie_id_from_tmdb(searchCatalog[movie_title_from_user[r]]) IN
         IF res.raised
         THEN /\ Finish(r, "UncaughtException")
              /\ UNCHANGED <<movie_id, stages, calls, reviewCatalog>>
         ELSE /\ movie_id' = [movie_id EXCEPT ![r] = res.value]
              /\ IF MovieIdMissing(res.value)
                 THEN /\ Finish(r, "MovieNotFound")
                      /\ UNCHANGED <<stages, calls, reviewCatalog>>
                 ELSE /\ pc' = [pc EXCEPT ![r] = "fetching"]
                      /\ stages' = [stages EXCEPT ![r] = Append(@, "Fetching")]
                      /\ calls' = [calls EXCEPT ![r] = Append(@, "reviews")]
                      /\ reviewCatalog' \in Ask(reviewCatalog, res.value, ReviewResponses)
                      /\ UNCHANGED outcome
    /\ UNCHANGED <<glob, vectorizer_pkl, sentiment_model_pkl, searchCatalog,
                   movie_title_from_user, reviews_list, final_response_data>>

\* The review call returns: the handler runs to its end.
ReviewsReturn(r) ==
    /\ pc[r] = "fetching"
    /\ reviewCatalog[movie_id[r]].kind # "hang"
    /\ LET res == get_reviews_for_movie(reviewCatalog[movie_id[r]]) IN
         IF res.raised
         THEN /\ Finish(r, "UncaughtException")
              /\ UNCHANGED <<reviews_list, stages, final_response_data,
                             vectorizer_pkl, sentiment_model_pkl>>
         ELSE /\ reviews_list' = [reviews_list EXCEPT ![r] = res.value]
              /\ IF NoReviews(res.value)
                 THEN /\ Finish(r, "NoReviews")
                      /\ UNCHANGED <<stages, final_response_data,
                                     vectorizer_pkl, sentiment_model_pkl>>
                 ELSE /\ Finish(r, "Done")
                      /\ stages' = [stages EXCEPT ![r] = Append(@, "Classifying")]
                      /\ \E v \in Fix(vectorizer_pkl.map, Range(res.value), Features, NoFeature) :
                         \E m \in Fix(sentiment_model_pkl.map, {v[t] : t \in Range(res.value)},
                                      Preds, NoPred) :
                           /\ vectorizer_pkl' = [vectorizer_pkl EXCEPT !.map = v]
                           /\ sentiment_model_pkl' = [sentiment_model_pkl EXCEPT !.map = m]
                           /\ final_response_data' = [final_response_data EXCEPT ![r] =
                                  Analyze(m, v, res.value)]
    /\ UNCHANGED <<glob, searchCatalog, reviewCatalog, movie_title_from_user,
                   movie_id, calls>>

\* ------------------------------------------------------- specification
PickleFiles(fresh) == {[ok |-> b, map |-> fresh] : b \in BOOLEAN}

Init ==
    /\ boot = "starting"
    /\ vectorizer_pkl \in PickleFiles(FreshVectorizer)
    /\ sentiment_model_pkl \in PickleFiles(FreshModel)
    /\ my_vectorizer = NoneObj
    /\ my_model = NoneObj
    /\ loads = <<>>
    /\ searchCatalog = [t \in Titles |-> Unasked]
    /\ reviewCatalog = [i \in MovieIds |-> Unasked]
    /\ pc = [r \in Requests |-> "idle"]
    /\ movie_title_from_user = [r \in Requests |-> NoneStr]
    /\ movie_id = [r \in Requests |-> NoneInt]
    /\ reviews_list = [r \in Requests |-> <<>>]
    /\ outcome = [r \in Requests |-> "Pending"]
    /\ final_response_data = [r \in Requests |-> NoSummary]
    /\ calls = [r \in Requests |-> <<>>]
    /\ stages = [r \in Requests |-> <<>>]

Next ==
    \/ LoadModels
    \/ \E r \in Requests, title \in Titles : Receive(r, title)
    \/ \E r \in Requests : SearchReturn(r)
    \/ \E r \in Requests : ReviewsReturn(r)

Spec == Init /\ [][Next]_vars

\* Requests are handed to worker threads, which run whenever they can: a
\* handler whose catalog call has returned goes on.
FairSpec ==
    /\ Spec
    /\ WF_vars(LoadModels)
    /\ \A r \in Requests : WF_vars(SearchReturn(r)) /\ WF_vars(ReviewsReturn(r))

\* ------------------------------------------------------------ properties
Finished(r)     == pc[r] = "done"
Called(r, what) == what \in Range(calls[r])
Ran(r, stage)   == stage \in Range(stages[r])
ModelsLoaded    == boot = "serving" /\ ~NotObj(my_model) /\ ~NotObj(my_vectorizer)
LoadFailed      == boot = "serving" /\ (~vectorizer_pkl.ok \/ ~sentiment_model_pkl.ok)
Blank(title)    == ~title.isNone /\ Strip(title.chars) = <<>>
SearchAnswer(r) == searchCatalog[movie_title_from_user[r]]
ReviewAnswer(r) == reviewCatalog[movie_id[r]]
\* The call failed at the transport or parsing level.
Broken(resp)    == resp.kind \in {"raise", "badjson", "nokey"}
IsPrefix(s, t)  == Len(s) <= Len(t) /\ \A i \in 1..Len(s) : s[i] = t[i]
StageOrder      == <<"ModelCheck", "Resolving", "Fetching", "Classifying">>
CallOrder       == <<"search", "reviews">>

\* C1: with the classifier loaded, an invocation whose title is empty or only
\* whitespace ends in InvalidInput and makes no catalog call.
C1_BlankTitleRejected ==
    \A r \in Requests :
        (ModelsLoaded /\ pc[r] # "idle" /\ Blank(movie_title_from_user[r]))
            => (Finished(r) /\ outcome[r] = "InvalidInput" /\ calls[r] = <<>>)

\* C2: a catalog call that fails at the transport or parsing level ends the
\* invocation in UpstreamUnavailable (not MovieNotFound, not NoReviews, not an
\* uncaught exception).
C2_UpstreamUnavailable ==
    \A r \in Requests :
        (/\ Finished(r)
         /\ \/ Called(r, "search") /\ Broken(SearchAnswer(r))
            \/ Called(r, "reviews") /\ Broken(ReviewAnswer(r)))
            => outcome[r] = "UpstreamUnavailable"

\* C3: once the search has returned a candidate list, the invocation ends in
\* MovieNotFound exactly when the list is empty, and otherwise fetches the
\* reviews of the first candidate's identifier, whatever its value.
C3_FirstCandidate ==
    \A r \in Requests :
        (/\ pc[r] \in {"fetching", "done"}
         /\ Called(r, "search")
         /\ SearchAnswer(r).kind = "list")
            => /\ outcome[r] = "MovieNotFound" <=> SearchAnswer(r).results = <<>>
               /\ SearchAnswer(r).results # <<>> =>
                     /\ Called(r, "reviews")
                     /\ movie_id[r] = Int_(SearchAnswer(r).results[1].id)

\* C4: when loading either artifact failed, every invocation that has arrived,
\* whatever its title, has ended in ModelUnavailable without a catalog call,
\* and no artifact has been loaded again after startup.
C4_ModelUnavailable ==
    LoadFailed =>
        /\ \A r \in Requests :
              pc[r] # "idle" =>
                  /\ Finished(r)
                  /\ outcome[r] = "ModelUnavailable"
                  /\ calls[r] = <<>>
        /\ loads \in {<<"vectorizer.pkl">>, <<"vectorizer.pkl", "sentiment_model.pkl">>}

C4_Witness ==
    /\ LoadFailed
    /\ vectorizer_pkl.ok
    /\ \E r1, r2 \in Requests :
          /\ Finished(r1) /\ movie_title_from_user[r1] = Str(<<>>)
          /\ Finished(r2) /\ movie_title_from_user[r2] = Str(<<"a">>)

\* C5: in every summary returned, positive_count + negative_count equals
\* total_reviews, which equals the number of results.
C5_CountsAddUp ==
    \A r \in Requests :
        outcome[r] = "Done" =>
            LET d == final_response_data[r] IN
              /\ d.positive_count + d.negative_count = d.total_reviews
              /\ d.total_reviews = Len(d.reviews)
              /\ d.total_reviews = Len(reviews_list[r])

C5_Witness ==
    \E r \in Requests :
        /\ outcome[r] = "Done"
        /\ final_response_data[r].positive_count = 1
        /\ final_response_data[r].negative_count = 1
        /\ \E i \in 1..Len(reviews_list[r]) :
              sentiment_model_pkl.map[vectorizer_pkl.map[reviews_list[r][i]]] = 2

\* C6: an invocation whose review listing came back empty ends in NoReviews,
\* and no summary is returned with total_reviews = 0.
C6_NoEmptySummary ==
    \A r \in Requests :
        /\ (/\ Finished(r)
            /\ Called(r, "reviews")
            /\ ReviewAnswer(r) = [kind |-> "list", results |-> <<>>])
              => outcome[r] = "NoReviews"
        /\ outcome[r] = "Done" => final_response_data[r].total_reviews # 0

C6_Witness ==
    \E r \in Requests :
        /\ Finished(r)
        /\ Called(r, "reviews")
        /\ ReviewAnswer(r) = [kind |-> "list", results |-> <<>>]
        /\ outcome[r] = "NoReviews"

\* C7: in every summary returned, results has the length of the fetched
\* reviews, results[i].text is the i-th review the catalog listed, and
\* results[i].sentiment is Positive when the classifier's i-th prediction is 1
\* and Negative for any other prediction.
C7_PointwiseImage ==
    \A r \in Requests :
        outcome[r] = "Done" =>
            LET res    == final_response_data[r].reviews
                listed == ReviewAnswer(r).results
            IN  /\ Len(res) = Len(listed)
                /\ Len(res) = Len(reviews_list[r])
                /\ \A i \in 1..Len(res) :
                      /\ res[i].text = listed[i].content
                      /\ res[i].text = reviews_list[r][i]
                      /\ res[i].sentiment =
                            IF sentiment_model_pkl.map[vectorizer_pkl.map[listed[i].content]] = 1
                            THEN "Positive" ELSE "Negative"

C7_Witness ==
    \E r \in Requests :
        /\ outcome[r] = "Done"
        /\ Len(final_response_data[r].reviews) = 2
        /\ final_response_data[r].reviews[1] =
              [text |-> "Great visuals", sentiment |-> "Negative"]
        /\ final_response_data[r].reviews[2] =
              [text |-> "Boring plot", sentiment |-> "Positive"]
        /\ sentiment_model_pkl.map[vectorizer_pkl.map["Great visuals"]] = 2

\* C8: two finished invocations with the same title have the same outcome and
\* the same summary (the catalog and the classifier do not change).
C8_SameTitleSameOutcome ==
    \A r1, r2 \in Requests :
        (/\ Finished(r1) /\ Finished(r2)
         /\ movie_title_from_user[r1] = movie_title_from_user[r2])
            => /\ outcome[r1] = outcome[r2]
               /\ final_response_data[r1] = final_response_data[r2]

C8_Witness ==
    \E r1, r2 \in Requests :
        /\ r1 # r2
        /\ movie_title_from_user[r1] = movie_title_from_user[r2]
        /\ outcome[r1] = "Done" /\ outcome[r2] = "Done"
        /\ final_response_data[r1].total_reviews = 2

\* C9: the stages run in the order ModelCheck, Resolving, Fetching,
\* Classifying; each catalog endpoint is called at most once, the search
\* first; the review listing is called only after the search returned a
\* candidate; classification runs only after a non-empty review list was
\* fetched; a failed stage is the last stage run; a summary is returned only
\* after all four stages.
C9_StagesInOrder ==
    \A r \in Requests :
        /\ IsPrefix(stages[r], StageOrder)
        /\ IsPrefix(calls[r], CallOrder)
        /\ Ran(r, "Resolving") <=> Called(r, "search")
        /\ Ran(r, "Fetching") <=> Called(r, "reviews")
        /\ Called(r, "reviews") =>
              SearchAnswer(r).kind = "list" /\ SearchAnswer(r).results # <<>>
        /\ Ran(r, "Classifying") =>
              /\ ReviewAnswer(r).kind = "list" /\ ReviewAnswer(r).results # <<>>
              /\ reviews_list[r] # <<>>
        /\ outcome[r] = "Done" <=> Ran(r, "Classifying")
        /\ outcome[r] \in {"ModelUnavailable", "InvalidInput"} => Len(stages[r]) = 1
        /\ outcome[r] = "MovieNotFound" => Len(stages[r]) = 2
        /\ outcome[r] = "NoReviews" => Len(stages[r]) = 3
        /\ outcome[r] = "UncaughtException" => Len(stages[r]) \in {2, 3}
        /\ outcome[r] # "Pending" <=> Finished(r)

C9_Witness ==
    \E r1, r2 \in Requests :
        /\ outcome[r1] = "Done" /\ stages[r1] = StageOrder /\ calls[r1] = CallOrder
        /\ outcome[r2] = "MovieNotFound" /\ calls[r2] = <<"search">>

\* C10: every invocation that has arrived eventually reaches a terminal state,
\* also when the catalog never answers one of its two calls.
C10_Terminates ==
    \A r \in Requests : (pc[r] # "idle") ~> Finished(r)

====
